---- MODULE Spec2Model ----
(***************************************************************************)
(* A model of the rank predictor: the response-sheet parser and the score  *)
(* calculator of src/parser.js and the /api/parse request handler of       *)
(* src/server.js with its Score collection (src/models/Score.js).          *)
(*                                                                         *)
(* Text is a sequence of one-character strings, so that trim(),            *)
(* toUpperCase() and the regular expressions are computed, not assumed.    *)
(* Marks per answer are integers in thousandths of a mark, total marks in  *)
(* hundredths of a mark, percentiles in hundredths of a percent.           *)
(***************************************************************************)
EXTENDS Integers, Sequences, FiniteSets, TLC

VARIABLES
  html,        \* parseAnswers: the argument
  parsed,      \* parseAnswers: how the call ended, what it returned, and its locals
               \* (allPairs, currentSection.pairs, sections before the fallback)
  pairsIn,     \* computeScore: pairs argument
  scheme,      \* computeScore: marksPerCorrect, negativePerWrong
  score,       \* computeScore: the summary returned
  sectionsIn,  \* computeSectionScores: sections argument
  secScores,   \* computeSectionScores: the value returned
  readyState,  \* mongoose.connection.readyState
  corpus,      \* the Score collection, in insertion order
  req,         \* per request slot: the request body and the handler's locals
  pc           \* per request slot: where the handler is suspended

vars == <<html, parsed, pairsIn, scheme, score,
          sectionsIn, secScores, readyState, corpus, req, pc>>

parserVars == <<html, parsed>>
scoreVars  == <<pairsIn, scheme, score, sectionsIn, secScores>>
serverVars == <<readyState, corpus, req, pc>>

----------------------------------------------------------------------------
(* Bounds *)

MaxLbls == 3
MaxBlocks == 3
MaxMatches == 1
MaxPairs == 3
MaxSections == 2
MaxCorpus == 3
NumRequests == 2

----------------------------------------------------------------------------
(* Text *)

\* A nullable number is <<>> (null) or <<n>>.
Null == <<>>
Some(n) == <<n>>

LowerAlpha == <<"a","b","c","d","e","f","g","h","i","j","k","l","m",
                "n","o","p","q","r","s","t","u","v","w","x","y","z">>
UpperAlpha == <<"A","B","C","D","E","F","G","H","I","J","K","L","M",
                "N","O","P","Q","R","S","T","U","V","W","X","Y","Z">>
Digits == {"0","1","2","3","4","5","6","7","8","9"}

IsSpace(c) == c = " "

RECURSIVE TrimStart(_)
TrimStart(s) ==
  IF s # <<>> /\ IsSpace(Head(s)) THEN TrimStart(Tail(s)) ELSE s

RECURSIVE TrimEnd(_)
TrimEnd(s) ==
  IF s # <<>> /\ IsSpace(s[Len(s)]) THEN TrimEnd(SubSeq(s, 1, Len(s) - 1)) ELSE s

Trim(s) == TrimEnd(TrimStart(s))

UpperMap ==
  [c \in {LowerAlpha[i] : i \in 1..26} |-> UpperAlpha[CHOOSE i \in 1..26 : LowerAlpha[i] = c]]

UpperChar(c) == IF c \in DOMAIN UpperMap THEN UpperMap[c] ELSE c

ToUpperCase(s) == [i \in 1..Len(s) |-> UpperChar(s[i])]

StartsWithAt(s, i, w) ==
  /\ i + Len(w) - 1 <= Len(s)
  /\ \A k \in 1..Len(w) : s[i + k - 1] = w[k]

\* /NOT\s*ATTEMPTED/i.test(s)
MatchesNotAttempted(s) ==
  \E i \in 1..(Len(s) - 11) :
    /\ StartsWithAt(ToUpperCase(SubSeq(s, i, i + 2)), 1, <<"N","O","T">>)
    /\ \E j \in (i + 3)..(Len(s) - 8) :
         /\ \A k \in (i + 3)..(j - 1) : IsSpace(s[k])
         /\ StartsWithAt(ToUpperCase(SubSeq(s, j, j + 8)), 1,
                         <<"A","T","T","E","M","P","T","E","D">>)

RECURSIVE DigitPrefix(_)
DigitPrefix(s) ==
  IF s # <<>> /\ Head(s) \in Digits
    THEN <<Head(s)>> \o DigitPrefix(Tail(s))
    ELSE <<>>

\* optText.match(/^(\d+)\./): group 1, or <<>> when there is no match
LeadingNumber(s) ==
  LET d == DigitPrefix(s) IN
  IF d # <<>> /\ Len(s) > Len(d) /\ s[Len(d) + 1] = "." THEN d ELSE <<>>

Dash == <<"-","-">>

mapToLetter(num) ==
  CASE num = <<"1">> -> <<"A">>
    [] num = <<"2">> -> <<"B">>
    [] num = <<"3">> -> <<"C">>
    [] num = <<"4">> -> <<"D">>
    [] OTHER -> Dash

----------------------------------------------------------------------------
(* parseAnswers: the document as the selectors of parseAnswers see it *)

\* A div.section-lbl: the number of its spans, whether the first span's text
\* includes "Section", and the trimmed text of the second span.
LblKinds ==
  { [spans |-> 2, prefix |-> TRUE,  name |-> "Current Affairs"],
    [spans |-> 1, prefix |-> TRUE,  name |-> ""] }

Row(flag, text) == [flag |-> flag, text |-> text]

\* A table.menu-tbl next to the question table: the number of cells of its last
\* row, whether the first cell's text includes "Chosen Option", the second's text.
Menu(tds, label, text) == <<[tds |-> tds, label |-> label, text |-> text]>>
NoMenu == <<>>

\* A table.norm-tbl or table.questionRowTbl: whether a cell matches /^Q\.\d+$/,
\* whether an "Ans" row follows it, the rows from the "Ans" row on (flag: the
\* second cell has class rightAns or a tick.png image; text: its text), and the
\* menu table that follows.
Block(q, ans, rows, menu) == [q |-> q, ans |-> ans, rows |-> rows, menu |-> menu]

BlockKinds ==
  { Block(FALSE, TRUE, <<Row(TRUE, <<"1",".">>)>>, Menu(2, TRUE, <<"1">>)),
    Block(TRUE, FALSE, <<>>, NoMenu),
    Block(TRUE, TRUE, <<Row(FALSE, <<"1","."," ","x">>), Row(FALSE, <<"2",".">>),
                        Row(FALSE, <<"3",".">>), Row(FALSE, <<"4",".">>),
                        Row(TRUE, <<"1",".">>)>>, Menu(2, TRUE, <<"2">>)),
    Block(TRUE, TRUE, <<Row(TRUE, <<" ","1","."," ","x">>), Row(FALSE, <<"2",".">>)>>,
          Menu(2, TRUE, <<" ","1"," ">>)),
    Block(TRUE, TRUE, <<Row(FALSE, <<"1",".">>), Row(TRUE, <<"2",".">>),
                        Row(FALSE, <<"3",".">>), Row(TRUE, <<"4","."," ","y">>)>>,
          Menu(2, TRUE, <<"2">>)),
    Block(TRUE, TRUE, <<Row(FALSE, <<"1",".">>), Row(FALSE, <<"2",".">>),
                        Row(TRUE, <<"3",".">>)>>, NoMenu),
    Block(TRUE, TRUE, <<Row(TRUE, <<"5","."," ","z">>)>>, Menu(2, TRUE, <<"3">>)),
    Block(TRUE, TRUE, <<Row(TRUE, <<"1","2",".">>)>>, Menu(2, FALSE, <<"1">>)) }

Pair(your, correct) == [your |-> your, correct |-> correct]

\* A match of rx1 in the body text: groups 1 and 2.
MatchKinds ==
  { Pair(<<"b">>, <<"C">>),
    Pair(<<"N","o","t"," ","A","t","t","e","m","p","t","e","d">>, <<"a">>) }

RECURSIVE SeqsUpTo(_, _)
SeqsUpTo(S, n) ==
  IF n = 0 THEN {<<>>}
  ELSE LET shorter == SeqsUpTo(S, n - 1) IN
       shorter \cup {Append(s, x) : s \in shorter, x \in S}

Document(lbls, blocks, matches) ==
  [kind |-> "text", lbls |-> lbls, blocks |-> blocks, matches |-> matches]

\* Not a string (null, undefined, an object) and the empty string.
NoDocument(kind) == [kind |-> kind, lbls |-> <<>>, blocks |-> <<>>, matches |-> <<>>]

Section(name, pairs) == [name |-> name, pairs |-> pairs]

RECURSIVE Flatten(_)
Flatten(secs) ==
  IF secs = <<>> THEN <<>> ELSE Head(secs).pairs \o Flatten(Tail(secs))

IsSectionLbl(l) == l.spans >= 2 /\ l.prefix /\ l.name # ""

RECURSIVE DetectSections(_)
DetectSections(lbls) ==
  IF lbls = <<>> THEN <<>>
  ELSE (IF IsSectionLbl(Head(lbls)) THEN <<Section(Head(lbls).name, <<>>)>> ELSE <<>>)
       \o DetectSections(Tail(lbls))

OptionRows(b) == SubSeq(b.rows, 1, IF Len(b.rows) < 4 THEN Len(b.rows) ELSE 4)

\* The forEach over optionRows: its callback's "return false" ends that call only,
\* so a later flagged row with a number overwrites an earlier one.
RECURSIVE ExtractCorrect(_, _)
ExtractCorrect(rows, correctNum) ==
  IF rows = <<>> THEN correctNum
  ELSE LET numMatch == LeadingNumber(Trim(Head(rows).text)) IN
       ExtractCorrect(Tail(rows),
                      IF Head(rows).flag /\ numMatch # <<>> THEN numMatch ELSE correctNum)

ExtractChosen(menu) ==
  IF menu # <<>> /\ menu[1].tds >= 2 /\ menu[1].label THEN Trim(menu[1].text) ELSE <<>>

\* One pass of the each() over the tables: the pair pushed, or nothing.
ExtractPair(b) ==
  LET correctNum == ExtractCorrect(OptionRows(b), <<>>)
      chosenNum == ExtractChosen(b.menu)
  IN IF ~b.q \/ ~b.ans \/ correctNum = <<>> THEN <<>>
     ELSE <<Pair(IF chosenNum # <<>> THEN mapToLetter(chosenNum) ELSE Dash,
                 mapToLetter(correctNum))>>

RECURSIVE CollectPairs(_)
CollectPairs(blocks) ==
  IF blocks = <<>> THEN <<>> ELSE ExtractPair(Head(blocks)) \o CollectPairs(Tail(blocks))

\* allPairs.slice(from, to), 0-based and clamped as Array.prototype.slice is
Slice(s, from, to) ==
  SubSeq(s, from + 1, IF to < Len(s) THEN to ELSE Len(s))

\* The distribution without lines 139-142: the remainder is dropped.
DistributeNoRemainder(sections, pairs) ==
  LET numSections == Len(sections)
      pairsPerSection == Len(pairs) \div numSections
  IN [i \in 1..numSections |->
        Section(sections[i].name,
                Slice(pairs, (i - 1) * pairsPerSection, i * pairsPerSection))]

\* Lines 130-142: the even distribution over more than one section.
Distribute(sections, pairs) ==
  LET numSections == Len(sections)
      pairsPerSection == Len(pairs) \div numSections
      even == [i \in 1..numSections |->
                 Section(sections[i].name,
                         Slice(pairs, (i - 1) * pairsPerSection, i * pairsPerSection))]
  IN [even EXCEPT ![numSections].pairs =
        @ \o Slice(pairs, numSections * pairsPerSection, Len(pairs))]

\* Lines 148-158: the regex fallback, pushing to the last section.
Fallback(sections, matches) ==
  IF Len(Flatten(sections)) = 0 /\ matches # <<>>
    THEN [sections EXCEPT ![Len(sections)].pairs = @ \o matches]
    ELSE sections

Returned(sections, pairs, own, asm) ==
  [status |-> "returned", sections |-> sections, allPairs |-> pairs,
   overall |-> own, assembled |-> asm]

Thrown(pairs, own) ==
  [status |-> "TypeError", sections |-> <<>>, allPairs |-> pairs,
   overall |-> own, assembled |-> <<>>]

parseAnswers(h) ==
  IF h.kind # "text" THEN Returned(<<>>, <<>>, <<>>, <<>>)
  ELSE
    LET sections == DetectSections(h.lbls)
        pairs == CollectPairs(h.blocks)
        \* currentSection is the last section detected, or the unlisted "Overall"
        own == pairs
    IN IF Len(sections) > 1
         THEN LET asm == Distribute(sections, pairs)
              IN Returned(Fallback(asm, h.matches), pairs, own, asm)
       ELSE IF Len(sections) = 1
         THEN LET asm == <<Section(sections[1].name, pairs)>>
              IN Returned(Fallback(asm, h.matches), pairs, own, asm)
       \* sections[0] is undefined: the assignment to its pairs throws
       ELSE Thrown(pairs, own)

NotCalled == [status |-> "none", sections |-> <<>>, allPairs |-> <<>>,
              overall |-> <<>>, assembled |-> <<>>]

----------------------------------------------------------------------------
(* computeScore and computeSectionScores *)

DefaultMarksPerCorrect == 1000
DefaultNegativePerWrong == 250

\* Math.round(num / den) for den > 0: halves go up, also below zero
MathRound(num, den) == (2 * num + den) \div (2 * den)

Normalize(text) == ToUpperCase(Trim(text))

\* The branch of lines 200-202 a pair takes.
Classify(p) ==
  LET your == Normalize(p.your)
      correctOpt == Normalize(p.correct)
  IN IF your = <<>> \/ your = Dash \/ MatchesNotAttempted(your) THEN "unattempted"
     ELSE IF your = correctOpt THEN "correct"
     ELSE "wrong"

\* The tally with a blank chosen value counted nowhere.
RECURSIVE TallySkippingBlank(_, _)
TallySkippingBlank(pairs, counts) ==
  IF pairs = <<>> THEN counts
  ELSE LET c == Classify(Head(pairs)) IN
       TallySkippingBlank(Tail(pairs),
                          IF Normalize(Head(pairs).your) = <<>> THEN counts
                          ELSE [counts EXCEPT ![c] = @ + 1])

RECURSIVE Tally(_, _)
Tally(pairs, counts) ==
  IF pairs = <<>> THEN counts
  ELSE LET c == Classify(Head(pairs)) IN
       Tally(Tail(pairs), [counts EXCEPT ![c] = @ + 1])

\* computeScore with the penalty added instead of subtracted.
computeScoreAddingPenalty(pairs, marksPerCorrect, negativePerWrong) ==
  LET counts == Tally(pairs, [c \in {"correct", "wrong", "unattempted"} |-> 0])
      correct == counts["correct"]
      wrong == counts["wrong"]
      unattempted == counts["unattempted"]
      totalMarks == correct * marksPerCorrect + wrong * negativePerWrong
      sum == correct + wrong + unattempted
      totalQuestions == IF sum # 0 THEN sum ELSE Len(pairs)
      attempted == IF correct + wrong > 1 THEN correct + wrong ELSE 1
  IN [correct |-> correct, wrong |-> wrong, unattempted |-> unattempted,
      totalQuestions |-> totalQuestions,
      marksPerCorrect |-> marksPerCorrect, negativePerWrong |-> negativePerWrong,
      totalMarks |-> MathRound(totalMarks, 10),
      accuracy |-> IF totalQuestions = 0 THEN 0 ELSE MathRound(correct * 10000, attempted)]

computeScore(pairs, marksPerCorrect, negativePerWrong) ==
  LET counts == Tally(pairs, [c \in {"correct", "wrong", "unattempted"} |-> 0])
      correct == counts["correct"]
      wrong == counts["wrong"]
      unattempted == counts["unattempted"]
      totalMarks == correct * marksPerCorrect - wrong * negativePerWrong
      sum == correct + wrong + unattempted
      totalQuestions == IF sum # 0 THEN sum ELSE Len(pairs)
      attempted == IF correct + wrong > 1 THEN correct + wrong ELSE 1
  IN [correct |-> correct, wrong |-> wrong, unattempted |-> unattempted,
      totalQuestions |-> totalQuestions,
      marksPerCorrect |-> marksPerCorrect, negativePerWrong |-> negativePerWrong,
      \* thousandths of a mark to hundredths: Math.round(totalMarks * 100) / 100
      totalMarks |-> MathRound(totalMarks, 10),
      \* hundredths of a percent: Math.round(accuracy * 100) / 100
      accuracy |-> IF totalQuestions = 0 THEN 0 ELSE MathRound(correct * 10000, attempted)]

computeSectionScores(sections) ==
  [sections |-> [i \in 1..Len(sections) |->
                   ("name" :> sections[i].name) @@
                   computeScore(sections[i].pairs, DefaultMarksPerCorrect,
                                DefaultNegativePerWrong)],
   total |-> computeScore(Flatten(sections), DefaultMarksPerCorrect,
                          DefaultNegativePerWrong)]

NotComputed == [status |-> "none"]

\* Pairs as any caller may pass them: untrimmed, lower case, empty, "Not Attempted".
PairKinds ==
  { Pair(<<"A">>, <<"A">>),
    Pair(<<"B">>, <<"A">>),
    Pair(Dash, <<"A">>),
    Pair(<<" ","b"," ">>, <<"B"," ">>),
    Pair(<<>>, <<"C">>),
    Pair(<<"N","o","t"," "," ","a","t","t","e","m","p","t","e","d">>, <<"a">>) }

\* marksPerCorrect, negativePerWrong in thousandths of a mark
Scheme(m, n) == [marksPerCorrect |-> m, negativePerWrong |-> n]
DefaultScheme == Scheme(DefaultMarksPerCorrect, DefaultNegativePerWrong)
Schemes == {DefaultScheme, Scheme(4000, 1330), Scheme(1000, 125)}

\* Every way to cut a list of pairs into k consecutive sections.
RECURSIVE Splits(_, _)
Splits(ps, k) ==
  IF k = 0 THEN (IF ps = <<>> THEN {<<>>} ELSE {})
  ELSE UNION { { <<Section("Current Affairs", SubSeq(ps, 1, i))>> \o rest :
                   rest \in Splits(SubSeq(ps, i + 1, Len(ps)), k - 1) } :
               i \in 0..Len(ps) }

SectionInputs(ps) == {<<>>} \cup UNION {Splits(ps, k) : k \in 1..MaxSections}

----------------------------------------------------------------------------
(* server.js: POST /api/parse *)

DefaultTotalCandidates == 300000

Requests == 1..NumRequests

LblRow == [spans |-> 2, prefix |-> TRUE, name |-> "Current Affairs"]
RightBlock ==
  Block(TRUE, TRUE, <<Row(TRUE, <<"1",".">>)>>, Menu(2, TRUE, <<"1">>))
WrongBlock ==
  Block(TRUE, TRUE, <<Row(TRUE, <<"1",".">>)>>, Menu(2, TRUE, <<"2">>))

\* The html of a request body (or the page its url serves); "" when absent.
RequestHtmls ==
  { NoDocument("empty"),
    Document(<<>>, <<RightBlock>>, <<>>),
    Document(<<LblRow>>, <<>>, <<>>),
    Document(<<LblRow>>, <<WrongBlock>>, <<>>),
    Document(<<LblRow, LblRow>>, <<RightBlock>>, <<>>) }

\* req.body after the destructuring of lines 87-94: a field the caller left out
\* has its default. html stands for the page to parse: the html field, or the
\* page the url serves.
Bodies ==
  [ html : RequestHtmls,
    scheme : {DefaultScheme, Scheme(2000, 500)},
    save : BOOLEAN,
    totalCandidates : {1000, DefaultTotalCandidates} ]

\* The bodies of the requests that run concurrently.
ConcurrentBodies ==
  {b \in Bodies : b.totalCandidates = DefaultTotalCandidates /\ b.scheme = DefaultScheme}

NoBody == [html |-> NoDocument("empty"), scheme |-> DefaultScheme,
           save |-> TRUE, totalCandidates |-> DefaultTotalCandidates]

NoResponse == [status |-> 0]

\* The handler's locals, and the response once sent.
Fresh(body) ==
  [body |-> body, pageHtml |-> body.html, scores |-> NotComputed, saved |-> FALSE,
   sampleSize |-> 0, less |-> Null, percentile |-> Null, estimatedRank |-> Null,
   response |-> NoResponse]

\* new Score({...}) of lines 134-152, with the fields of the schema
ScoreDoc(l) ==
  [totalMarks |-> l.scores.total.totalMarks,
   totalQuestions |-> l.scores.total.totalQuestions,
   correct |-> l.scores.total.correct,
   wrong |-> l.scores.total.wrong,
   unattempted |-> l.scores.total.unattempted,
   marksPerCorrect |-> l.body.scheme.marksPerCorrect,
   negativePerWrong |-> l.body.scheme.negativePerWrong]

\* Score.countDocuments() and Score.countDocuments({totalMarks: {$lt: value}})
countDocuments(c) == Len(c)
countLessThan(c, value) == Cardinality({i \in 1..Len(c) : c[i].totalMarks < value})

\* Line 170: (less / sampleSize) * 100, kept exact as the fraction num / den
Percentile(less, sampleSize) == [num |-> less * 100, den |-> sampleSize]

\* The rank without the Math.max(1, ...) of line 171.
EstimatedRankNoFloor(percentile, totalCandidates) ==
  MathRound((100 * percentile.den - percentile.num) * totalCandidates,
            100 * percentile.den)

\* Lines 171-174: Math.max(1, Math.round((1 - percentile / 100) * totalCandidates))
EstimatedRank(percentile, totalCandidates) ==
  LET r == MathRound((100 * percentile.den - percentile.num) * totalCandidates,
                     100 * percentile.den)
  IN IF r > 1 THEN r ELSE 1

\* Line 188: Math.round(percentile * 100) / 100, in hundredths of a percent
RoundedPercentile(percentile) == MathRound(percentile.num * 100, percentile.den)

ErrorResponse(l, status) == [l EXCEPT !.response = [status |-> status, ok |-> FALSE]]

\* Lines 181-191
Respond(l) ==
  [l EXCEPT !.response =
     [status |-> 200, ok |-> TRUE,
      parsedCount |-> l.scores.total.totalQuestions,
      sections |-> l.scores.sections, total |-> l.scores.total,
      dbSaved |-> l.saved,
      percentile |-> IF l.percentile = Null THEN Null
                     ELSE Some(RoundedPercentile(l.percentile[1])),
      estimatedRank |-> l.estimatedRank,
      sampleSize |-> l.sampleSize]]

\* Lines 159-165: to the first countDocuments(), or past the estimation
StartRank(r, l) ==
  IF readyState = 1
    THEN /\ pc' = [pc EXCEPT ![r] = "count"]
         /\ req' = [req EXCEPT ![r] = l]
    ELSE /\ pc' = [pc EXCEPT ![r] = "responded"]
         /\ req' = [req EXCEPT ![r] = Respond(l)]

\* Lines 118-133: parse, compute, and to doc.save() when there is a database
ParseAndScore(r, l) ==
  LET parsedData == parseAnswers(l.pageHtml)
      sections == parsedData.sections
  IN IF parsedData.status = "TypeError"
       \* the async handler's promise rejects: no response is sent
       THEN /\ pc' = [pc EXCEPT ![r] = "rejected"]
            /\ req' = [req EXCEPT ![r] = l]
     ELSE IF Len(Flatten(sections)) = 0
       THEN /\ pc' = [pc EXCEPT ![r] = "responded"]
            /\ req' = [req EXCEPT ![r] = ErrorResponse(l, 422)]
     ELSE LET scored == [l EXCEPT !.scores = computeSectionScores(sections)]
          IN IF readyState = 1 /\ l.body.save
               THEN /\ pc' = [pc EXCEPT ![r] = "save"]
                    /\ req' = [req EXCEPT ![r] = scored]
               ELSE StartRank(r, scored)

Settled == {"idle", "responded", "rejected"}

\* Requests that may still append to the collection
Saving == {r \in Requests : pc[r] = "save"}

\* Lines 86-117 and on to the first await on the database. The await on
\* fetchUrl touches nothing shared, so its outcome is drawn here.
Receive(r, bodies) ==
  /\ pc[r] \in Settled
  /\ \E body \in bodies, url \in {"none", "unreachable", "fetched"} :
       /\ body.save => Len(corpus) + Cardinality(Saving) < MaxCorpus
       /\ LET l == Fresh(body) IN
          IF url = "none" /\ body.html.kind # "text"
            THEN /\ pc' = [pc EXCEPT ![r] = "responded"]
                 /\ req' = [req EXCEPT ![r] = ErrorResponse(l, 400)]
          ELSE IF url = "unreachable"
            THEN /\ pc' = [pc EXCEPT ![r] = "responded"]
                 /\ req' = [req EXCEPT ![r] = ErrorResponse(l, 500)]
          ELSE ParseAndScore(r, l)
  /\ UNCHANGED <<readyState, corpus>>

\* await doc.save() settles: the document is inserted, or the error is logged
SaveSettled(r) ==
  /\ pc[r] = "save"
  /\ \E ok \in BOOLEAN :
       IF ok
         THEN /\ corpus' = Append(corpus, ScoreDoc(req[r]))
              /\ StartRank(r, [req[r] EXCEPT !.saved = TRUE])
         ELSE /\ corpus' = corpus
              /\ StartRank(r, req[r])
  /\ UNCHANGED readyState

\* await Score.countDocuments() settles
CountSettled(r) ==
  /\ pc[r] = "count"
  /\ \E ok \in BOOLEAN :
       LET l == [req[r] EXCEPT !.sampleSize = countDocuments(corpus)] IN
       IF ok /\ l.sampleSize > 0
         THEN /\ pc' = [pc EXCEPT ![r] = "less"]
              /\ req' = [req EXCEPT ![r] = l]
         ELSE /\ pc' = [pc EXCEPT ![r] = "responded"]
              /\ req' = [req EXCEPT ![r] = Respond(IF ok THEN l ELSE req[r])]
  /\ UNCHANGED <<readyState, corpus>>

\* await Score.countDocuments({totalMarks: {$lt: ...}}) settles
LessSettled(r) ==
  /\ pc[r] = "less"
  /\ \E ok \in BOOLEAN :
       LET l == req[r]
           less == countLessThan(corpus, l.scores.total.totalMarks)
       IN /\ pc' = [pc EXCEPT ![r] = "responded"]
          /\ req' = [req EXCEPT ![r] =
               Respond(IF ok
                 THEN [l EXCEPT !.less = Some(less),
                                !.percentile = Some(Percentile(less, l.sampleSize)),
                                !.estimatedRank =
                                   Some(EstimatedRank(Percentile(less, l.sampleSize),
                                                      l.body.totalCandidates))]
                 ELSE l)]
  /\ UNCHANGED <<readyState, corpus>>

\* Lines 61-65: mongoose.connect() resolves; the connection may drop later
Connected ==
  /\ readyState = 0
  /\ readyState' = 1
  /\ UNCHANGED <<corpus, req, pc>>

Disconnected ==
  /\ readyState = 1
  /\ readyState' = 0
  /\ UNCHANGED <<corpus, req, pc>>

----------------------------------------------------------------------------
(* Specifications *)

ParserIdle == html = NoDocument("empty") /\ parsed = NotCalled

ScoreIdle ==
  /\ pairsIn = <<>> /\ scheme = DefaultScheme /\ score = NotComputed
  /\ sectionsIn = <<>> /\ secScores = NotComputed

ServerIdle ==
  /\ readyState = 0
  /\ corpus = <<>>
  /\ req = [r \in Requests |-> Fresh(NoBody)]
  /\ pc = [r \in Requests |-> "idle"]

\* The server: requests in flight over one Score collection.
Init == ParserIdle /\ ScoreIdle /\ ServerIdle

Next ==
  \/ Connected /\ UNCHANGED <<parserVars, scoreVars>>
  \/ Disconnected /\ UNCHANGED <<parserVars, scoreVars>>
  \/ \E r \in Requests : Receive(r, ConcurrentBodies) /\ UNCHANGED <<parserVars, scoreVars>>
  \/ \E r \in Requests : SaveSettled(r) /\ UNCHANGED <<parserVars, scoreVars>>
  \/ \E r \in Requests : CountSettled(r) /\ UNCHANGED <<parserVars, scoreVars>>
  \/ \E r \in Requests : LessSettled(r) /\ UNCHANGED <<parserVars, scoreVars>>

Spec == Init /\ [][Next]_vars

\* The server handling one request at a time, over every body of the bounds.
NextSerial ==
  \/ Connected /\ UNCHANGED <<parserVars, scoreVars>>
  \/ Disconnected /\ UNCHANGED <<parserVars, scoreVars>>
  \/ Receive(1, Bodies) /\ UNCHANGED <<parserVars, scoreVars>>
  \/ SaveSettled(1) /\ UNCHANGED <<parserVars, scoreVars>>
  \/ CountSettled(1) /\ UNCHANGED <<parserVars, scoreVars>>
  \/ LessSettled(1) /\ UNCHANGED <<parserVars, scoreVars>>

SpecSerial == Init /\ [][NextSerial]_vars

\* parseAnswers on every document of the bounds.
InitParser ==
  /\ \/ html \in {NoDocument("nonstring"), NoDocument("empty")}
     \/ \E l \in SeqsUpTo(LblKinds, MaxLbls), b \in SeqsUpTo(BlockKinds, MaxBlocks),
           m \in SeqsUpTo(MatchKinds, MaxMatches) : html = Document(l, b, m)
  /\ parsed = NotCalled
  /\ ScoreIdle /\ ServerIdle

CallParseAnswers ==
  /\ parsed = NotCalled
  /\ parsed' = parseAnswers(html)
  /\ UNCHANGED <<html, scoreVars, serverVars>>

NextParser == CallParseAnswers

SpecParser == InitParser /\ [][NextParser]_vars

\* computeScore on every list of pairs and marking scheme of the bounds, and
\* computeSectionScores on every list of sections those pairs can be cut into.
InitScore ==
  /\ pairsIn \in SeqsUpTo(PairKinds, MaxPairs)
  /\ sectionsIn \in SectionInputs(pairsIn)
  /\ scheme \in Schemes
  /\ score = NotComputed
  /\ secScores = NotComputed
  /\ ParserIdle /\ ServerIdle

CallComputeScore ==
  /\ score = NotComputed
  /\ score' = computeScore(pairsIn, scheme.marksPerCorrect, scheme.negativePerWrong)
  /\ UNCHANGED <<pairsIn, scheme, sectionsIn, secScores, parserVars, serverVars>>

CallComputeSectionScores ==
  /\ secScores = NotComputed
  /\ secScores' = computeSectionScores(sectionsIn)
  /\ UNCHANGED <<pairsIn, scheme, sectionsIn, score, parserVars, serverVars>>

NextScore == CallComputeScore \/ CallComputeSectionScores

SpecScore == InitScore /\ [][NextScore]_vars

----------------------------------------------------------------------------
(* Claims *)

Letters == {<<"A">>, <<"B">>, <<"C">>, <<"D">>}

Max(a, b) == IF a > b THEN a ELSE b

RECURSIVE SumTotalQuestions(_)
SumTotalQuestions(results) ==
  IF results = <<>> THEN 0
  ELSE Head(results).totalQuestions + SumTotalQuestions(Tail(results))

\* The requests answered with the scores (status 200).
Answered == {r \in Requests : pc[r] = "responded" /\ req[r].response.status = 200}

\* The answered requests whose estimation ran to its end.
Estimated == {r \in Answered : req[r].less # Null}

\* C1: parseAnswers, called on any document, returns a ParseResult and never
\* throws; without section headers the implicit "Overall" section gets the pairs.
C1_ParseAnswersReturns ==
  parsed # NotCalled =>
    /\ parsed.status = "returned"
    /\ parsed.overall = parsed.allPairs

\* C2: with k >= 1 sections discovered and N pairs extracted, the sections' pairs
\* in section order are the N pairs in document order; when k > 1 each of the
\* first k-1 sections holds floor(N/k) pairs and the last the other N - (k-1)*floor(N/k).
\* With N > 0 the sections are returned as assembled.
C2_AssemblyPartitionsPairs ==
  (parsed.status = "returned" /\ Len(parsed.assembled) >= 1) =>
    LET secs == parsed.assembled
        k == Len(secs)
        N == Len(parsed.allPairs)
    IN /\ Flatten(secs) = parsed.allPairs
       /\ k > 1 =>
            /\ \A i \in 1..(k - 1) : Len(secs[i].pairs) = N \div k
            /\ Len(secs[k].pairs) = N - (k - 1) * (N \div k)
       /\ N > 0 => parsed.sections = secs

C2_Witness ==
  /\ parsed.status = "returned"
  /\ Len(parsed.assembled) = 2
  /\ Len(parsed.allPairs) = 3
  /\ Len(parsed.sections[2].pairs) = 2

\* C3: computeScore counts every pair once: correct + wrong + unattempted =
\* totalQuestions = the number of pairs; and the totalQuestions of the sections
\* of computeSectionScores add up to the overall totalQuestions.
C3_PairCountConservation ==
  /\ score # NotComputed =>
       /\ score.correct + score.wrong + score.unattempted = score.totalQuestions
       /\ score.totalQuestions = Len(pairsIn)
  /\ secScores # NotComputed =>
       /\ SumTotalQuestions(secScores.sections) = secScores.total.totalQuestions
       /\ secScores.total.totalQuestions = Len(Flatten(sectionsIn))

C3_Witness ==
  /\ score # NotComputed /\ secScores # NotComputed
  /\ score.correct > 0 /\ score.wrong > 0 /\ score.unattempted > 0
  /\ Len(sectionsIn) = 2
  /\ secScores.sections[1].totalQuestions = 1
  /\ secScores.sections[2].totalQuestions = 2

\* C4: computeScore counts a pair unattempted when its trimmed, upper-cased chosen
\* value is empty, "--" or matches "not attempted", correct when it equals the
\* trimmed, upper-cased correct value, wrong otherwise; totalMarks is
\* correct*marksPerCorrect - wrong*negativePerWrong rounded to 2 decimals, which
\* for a scheme in hundredths is that value itself. (A,A),(B,A),(--,A) with the
\* default scheme give 1, 1, 1 and 0.75.
C4_TotalMarks ==
  score # NotComputed =>
    LET idx == 1..Len(pairsIn)
        chosen(i) == ToUpperCase(Trim(pairsIn[i].your))
        answer(i) == ToUpperCase(Trim(pairsIn[i].correct))
        blank == {i \in idx : \/ chosen(i) = <<>>
                              \/ chosen(i) = <<"-","-">>
                              \/ MatchesNotAttempted(chosen(i))}
        right == {i \in idx \ blank : chosen(i) = answer(i)}
        c == Cardinality(right)
        u == Cardinality(blank)
        w == Len(pairsIn) - c - u
        exact == c * scheme.marksPerCorrect - w * scheme.negativePerWrong
    IN /\ score.correct = c /\ score.wrong = w /\ score.unattempted = u
       /\ 20 * score.totalMarks - 10 <= 2 * exact
       /\ 2 * exact < 20 * score.totalMarks + 10
       /\ (scheme.marksPerCorrect % 10 = 0 /\ scheme.negativePerWrong % 10 = 0)
            => 10 * score.totalMarks = exact
       /\ (/\ pairsIn = <<Pair(<<"A">>, <<"A">>), Pair(<<"B">>, <<"A">>),
                          Pair(<<"-","-">>, <<"A">>)>>
           /\ scheme = Scheme(1000, 250))
            => score.totalMarks = 75

C4_Witness ==
  /\ score # NotComputed
  /\ pairsIn = <<Pair(<<"A">>, <<"A">>), Pair(<<"B">>, <<"A">>), Pair(<<"-","-">>, <<"A">>)>>
  /\ scheme = Scheme(1000, 250)
  /\ score.totalMarks = 75

\* C5: the marks of a response and of a stored record follow the marking scheme
\* the request supplied: totalMarks = correct*marksPerCorrect - wrong*negativePerWrong.
C5_SuppliedSchemeIsUsed ==
  /\ \A i \in 1..Len(corpus) :
       10 * corpus[i].totalMarks =
         corpus[i].correct * corpus[i].marksPerCorrect
           - corpus[i].wrong * corpus[i].negativePerWrong
  /\ \A r \in Answered :
       10 * req[r].response.total.totalMarks =
         req[r].response.total.correct * req[r].body.scheme.marksPerCorrect
           - req[r].response.total.wrong * req[r].body.scheme.negativePerWrong

\* round((1 - p/100) * totalCandidates) for a percentile p in hundredths of a
\* percent, the whole ten-thousands of totalCandidates taken out of the rounding.
RankOfPercentile(p, totalCandidates) ==
  (10000 - p) * (totalCandidates \div 10000)
    + ((2 * (10000 - p) * (totalCandidates % 10000) + 10000) \div 20000)

\* C6 as stated: the percentile returned is lessCount / sampleSize * 100 rounded to
\* 2 decimals, and estimatedRank is max(1, round((1 - p/100) * totalCandidates))
\* for that returned percentile p.
C6_RankFromReturnedPercentile ==
  \A r \in Estimated :
    LET resp == req[r].response
        p == resp.percentile[1]
    IN /\ 2 * req[r].sampleSize * p - req[r].sampleSize <= 2 * 10000 * req[r].less[1]
       /\ 2 * 10000 * req[r].less[1] < 2 * req[r].sampleSize * p + req[r].sampleSize
       /\ resp.estimatedRank[1] = Max(1, RankOfPercentile(p, req[r].body.totalCandidates))

\* C6 as amended: the percentile returned is lessCount / sampleSize * 100 rounded to
\* 2 decimals, and estimatedRank is max(1, round((1 - lessCount/sampleSize) *
\* totalCandidates)): the rank is computed from the percentile before it is rounded.
C6_RankFromExactPercentile ==
  \A r \in Estimated :
    LET resp == req[r].response
        p == resp.percentile[1]
        n == req[r].sampleSize
        less == req[r].less[1]
    IN /\ resp.sampleSize = n /\ n > 0
       /\ 2 * n * p - n <= 2 * 10000 * less
       /\ 2 * 10000 * less < 2 * n * p + n
       /\ resp.estimatedRank[1] =
            Max(1, ((2 * (n - less) * req[r].body.totalCandidates + n) \div (2 * n)))

C6_Witness ==
  \E r \in Estimated :
    /\ req[r].sampleSize = 3 /\ req[r].less[1] = 1
    /\ req[r].response.percentile = Some(3333)
    /\ req[r].response.estimatedRank = Some(200000)

\* C7: a request's record is appended only after its rank estimation has read the
\* corpus, so its own record is not in the counts: a first request against an
\* empty corpus reports sampleSize 0.
C7_AppendAfterEstimation ==
  /\ \A r \in Requests : pc[r] \in {"count", "less"} => ~req[r].saved
  /\ \A r \in Answered :
       (req[r].response.dbSaved /\ Len(corpus) = 1) => req[r].response.sampleSize = 0

\* C8: an answered request has percentile and estimatedRank null when sampleSize
\* is 0, which is what it reports when the corpus is unavailable or empty, and
\* both non-null when sampleSize > 0.
C8_NullExactlyWithoutSample ==
  \A r \in Answered :
    LET resp == req[r].response IN
    /\ resp.sampleSize = 0 => (resp.percentile = Null /\ resp.estimatedRank = Null)
    /\ resp.sampleSize > 0 => (resp.percentile # Null /\ resp.estimatedRank # Null)

\* C9: every pair of the structural pass has a correct answer among A, B, C, D,
\* never "--", whatever number leads the flagged row.
C9_CorrectNeverSentinel ==
  parsed.status = "returned" =>
    \A i \in 1..Len(parsed.allPairs) : parsed.allPairs[i].correct \in Letters

\* C10: whatever the interleaving of requests, the two counts of an estimation are
\* of one snapshot: lessCount <= sampleSize, the percentile is within [0, 100] and
\* the rank within [1, totalCandidates].
C10_ConsistentCounts ==
  \A r \in Estimated :
    /\ req[r].less[1] <= req[r].sampleSize
    /\ req[r].response.percentile[1] \in 0..10000
    /\ req[r].response.estimatedRank[1] \in 1..req[r].body.totalCandidates

====
